---- MODULE Spec2Model ----
(***************************************************************************)
(* Read-modify-write reconcilers of the repository: the two IAM policy     *)
(* workflows (assign_iam_roles.py, deploy_project_owner_remove.py) against *)
(* the project's policy store, and the four address workflows (in.py,      *)
(* infob-auomation/infob_ip.py, infob-auomation-v2/infob_ip.py,            *)
(* infoblox/infoblox_reserve_cidr.py) against the IPAM store.              *)
(*                                                                         *)
(* The two domains share no state.  A behaviour starts in one of them      *)
(* (Init == InitPolicy \/ InitAddr) and the other domain stays switched    *)
(* off, so the reachable states are the disjoint union of both.            *)
(*                                                                         *)
(* Role and member strings are numbered in their lexicographic order, so   *)
(* that Python's sorted() on the strings is < on the numbers.              *)
(***************************************************************************)
EXTENDS Integers, Sequences, FiniteSets, TLC

VARIABLES
    policyStore,  \* the project's IAM policy document in the store
    pinv,         \* the invocation of a policy workflow
    addrStore,    \* the address store's network objects, by _ref
    ainv,         \* the invocations of the address workflows
    diff,         \* the binding diff applied to a document on its own
    vecStore,     \* the vector search resources of the project, by name
    vrun          \* the runs of deploy_vector_robust, one after the other

vars == <<policyStore, pinv, addrStore, ainv, diff, vecStore, vrun>>
vecVars == <<vecStore, vrun>>
policyVars == <<policyStore, pinv>>
addrVars == <<addrStore, ainv>>

(***************************************************************************)
(* Bounds of the model.                                                    *)
(***************************************************************************)
\* Most bindings of a policy document of the initial store.
MaxBindings == 2
\* Most writes of other writers between an invocation's fetch and its write.
MaxOtherWrites == 1
\* Most blocks the address store holds initially.
MaxInitBlocks == 2
\* Most bindings of a document the binding diff is applied to on its own.
MaxDiffBindings == 2
\* Entries of --roles.
MaxListed == 2
\* Bindings of the fetched dict of two compared runs.
MaxListedBindings == 1
\* Runs of deploy_vector_robust, one after the other.
MaxRuns == 3
\* Resources of the root module of a Terraform state.
MaxResources == 2
\* Resources of the child modules of a Terraform state.
MaxChildResources == 1
\* Characters of --subnet-name.
MaxNameLen == 2

\* The role strings of the repository, in string order: a role is known by
\* its position here.
RoleNames ==
    << "roles/aiplatform.featurestoreDataViewer",
       "roles/aiplatform.featurestoreResourceViewer",
       "roles/aiplatform.featurestoreUser",
       "roles/aiplatform.user",
       "roles/aiplatform.viewer",
       "roles/artifactregistry.admin",
       "roles/bigquery.dataEditor",
       "roles/bigquery.dataViewer",
       "roles/bigquery.jobUser",
       "roles/discoveryengine.editor",
       "roles/dlp.admin",
       "roles/dlp.jobsReader",
       "roles/notebooks.admin",
       "roles/notebooks.viewer",
       "roles/owner",
       "roles/storage.admin",
       "roles/storage.objectViewer" >>

RoleNo(name) == CHOOSE i \in DOMAIN RoleNames : RoleNames[i] = name

\* The roles of the documents in the store and of --roles:
\* "roles/discoveryengine.editor" = 10 < "roles/owner" = 15.
Roles == {10, 15}
\* role_to_remove = "roles/owner"
RoleOwner == 15
\* "serviceAccount:x@.." = 1 < "user:a@.." = 2 (string order).
Members == {1, 2}
\* etag b"" or absent.
NoTag == 0
NoDoc == [none |-> TRUE]

(***************************************************************************)
(* Helpers on sequences.                                                   *)
(***************************************************************************)
Range(s) == {s[i] : i \in DOMAIN s}

MinOf(S) == CHOOSE x \in S : \A y \in S : x <= y

RECURSIVE SortedSeq(_)
\* sorted(list(set(xs))) for the set S of the elements of xs
SortedSeq(S) ==
    IF S = {} THEN <<>>
    ELSE LET m == MinOf(S) IN <<m>> \o SortedSeq(S \ {m})

\* xs with its element at position i removed
RemoveAt(xs, i) == [j \in 1..(Len(xs) - 1) |-> IF j < i THEN xs[j] ELSE xs[j + 1]]

(***************************************************************************)
(* assign_iam_roles.py: the bundles.                                       *)
(***************************************************************************)
\* bundled_roles_map
BundledRolesMap ==
    [GenAIUser |->
        << "roles/artifactregistry.admin", "roles/aiplatform.user",
           "roles/notebooks.admin", "roles/storage.admin",
           "roles/bigquery.dataEditor", "roles/bigquery.jobUser",
           "roles/dlp.admin" >>,
     GenAIViewer |->
        << "roles/aiplatform.viewer", "roles/bigquery.dataViewer",
           "roles/storage.objectViewer", "roles/notebooks.viewer",
           "roles/dlp.jobsReader" >>,
     GenAIFeatureStoreUser |-> << "roles/aiplatform.featurestoreUser" >>,
     GenAIFeatureStoreViewer |->
        << "roles/aiplatform.featurestoreDataViewer",
           "roles/aiplatform.featurestoreResourceViewer" >>,
     GenAppBuilderUser |-> << "roles/discoveryengine.editor" >>]

\* get_bundled_roles with a default that is a bundle of the table.
GetBundledRolesDefault(bundle_name) ==
    IF bundle_name \in DOMAIN BundledRolesMap
    THEN BundledRolesMap[bundle_name]
    ELSE BundledRolesMap["GenAppBuilderUser"]

\* get_bundled_roles(bundle_name): bundled_roles_map.get(bundle_name, [])
GetBundledRoles(bundle_name) ==
    IF bundle_name \in DOMAIN BundledRolesMap
    THEN BundledRolesMap[bundle_name]
    ELSE <<>>

\* The names get_bundled_roles is applied to on its own: the keys of the
\* table, and names that are none of them (empty, other case, a prefix of a
\* key, a key with a suffix, a key with a blank, unrelated).
BundleNames ==
    {"GenAIUser", "GenAIViewer", "GenAIFeatureStoreUser",
     "GenAIFeatureStoreViewer", "GenAppBuilderUser",
     "", "genaiuser", "GenAI", "GenAIUserAdmin", " GenAIUser", "no-such-bundle"}

\* The values of --bundled-roles of the invocations: not given, a bundle of
\* the table whose role is one of Roles (the diff treats all roles alike),
\* and names that are not in the table.
BundleArgs == {"", "GenAppBuilderUser", "GenAppBuilder", "no-such-bundle"}

\* The values of --roles of the invocations.  A bundle of the table is given
\* on its own: with --roles the union is a role set that --roles alone
\* gives as well.
RoleArgs(b) == IF b \in DOMAIN BundledRolesMap THEN {{}} ELSE SUBSET Roles

(***************************************************************************)
(* assign_iam_roles.py: the binding diff.                                  *)
(***************************************************************************)
\* The dict of a policy is a record with the fields version, bindings and
\* etag.  A dict without the key 'bindings', or with None under it, has the
\* field nolist ("absent", "None") in place of bindings.
NoList(policy) == "nolist" \in DOMAIN policy

\* What a call leaves when it raises.
TypeError == [raised |-> "TypeError"]

\* policy.get('bindings', []) under the for loop: None cannot be iterated.
Iterable(policy) == ~(NoList(policy) /\ policy.nolist = "None")

\* The dict once 'bindings' holds a list: if 'bindings' not in policy ...:
\* policy['bindings'] = []
Listed(policy) ==
    IF NoList(policy)
    THEN [version |-> policy.version, bindings |-> <<>>, etag |-> policy.etag]
    ELSE policy

\* add_or_update_binding, first branch with the member always re-added
\* without the membership test and without de-duplication.
AddOrUpdateBindingNoDedup(policy, role, member_string) ==
    IF ~Iterable(policy) THEN TypeError
    ELSE
    LET bs   == Listed(policy).bindings
        idxs == {i \in DOMAIN bs : bs[i].role = role}
    IN  IF idxs # {}
        THEN LET i == MinOf(idxs)
             IN  [policy EXCEPT !.bindings[i] =
                     [role |-> bs[i].role,
                      members |-> Append(bs[i].members, member_string),
                      cond |-> 0]]
        ELSE [Listed(policy) EXCEPT !.bindings =
                 Append(bs, [role |-> role, members |-> <<member_string>>, cond |-> 0])]

\* add_or_update_binding without the search for a binding of the role: a
\* new binding is always appended.
AddOrUpdateBindingAlwaysNew(policy, role, member_string) ==
    IF ~Iterable(policy) THEN TypeError
    ELSE [Listed(policy) EXCEPT !.bindings =
             Append(Listed(policy).bindings,
                    [role |-> role, members |-> <<member_string>>, cond |-> 0])]

\* add_or_update_binding with the new member appended and the list left
\* as it then is.
AddOrUpdateBindingNoSort(policy, role, member_string) ==
    IF ~Iterable(policy) THEN TypeError
    ELSE
    LET bs   == Listed(policy).bindings
        idxs == {i \in DOMAIN bs : bs[i].role = role}
    IN  IF idxs # {}
        THEN LET i == MinOf(idxs)
                 b == bs[i]
                 newMembers ==
                     IF member_string \in Range(b.members)
                     THEN b.members
                     ELSE Append(b.members, member_string)
             IN  [policy EXCEPT !.bindings[i] =
                     [role |-> b.role, members |-> newMembers, cond |-> 0]]
        ELSE [Listed(policy) EXCEPT !.bindings =
                 Append(bs, [role |-> role, members |-> <<member_string>>, cond |-> 0])]

\* add_or_update_binding(policy, role, member_string): the loop over the
\* bindings raises on None; the first binding of the role gets the member
\* (then de-duplicated and sorted) and loses its condition; without such a
\* binding a new one is appended, to an empty list when the key was absent.
AddOrUpdateBinding(policy, role, member_string) ==
    IF ~Iterable(policy) THEN TypeError
    ELSE
    LET bs   == Listed(policy).bindings
        idxs == {i \in DOMAIN bs : bs[i].role = role}
    IN  IF idxs # {}
        THEN LET i == MinOf(idxs)
                 b == bs[i]
                 newMembers ==
                     IF member_string \in Range(b.members)
                     THEN b.members
                     ELSE SortedSeq(Range(b.members) \cup {member_string})
             IN  [policy EXCEPT !.bindings[i] =
                     [role |-> b.role, members |-> newMembers, cond |-> 0]]
        ELSE [Listed(policy) EXCEPT !.bindings =
                 Append(bs, [role |-> role, members |-> <<member_string>>, cond |-> 0])]

RECURSIVE ApplyRoleSeq(_, _, _)
ApplyRoleSeq(policy, rs, member_string) ==
    IF rs = <<>> THEN policy
    ELSE ApplyRoleSeq(AddOrUpdateBinding(policy, Head(rs), member_string),
                      Tail(rs), member_string)

\* for role in sorted(list(all_roles_to_assign)): add_or_update_binding(...)
ApplyDesiredRoles(policy, roles, member_string) ==
    ApplyRoleSeq(policy, SortedSeq(roles), member_string)

\* The roles of --roles and of the bundle, each role taken once, in the
\* order in which they are listed.
RolesInOrderAsListed(listed, bundle_name) ==
    LET resolved_roles == GetBundledRoles(bundle_name)
        all == listed \o [i \in DOMAIN resolved_roles |-> RoleNo(resolved_roles[i])]
    IN  SelectSeq([i \in DOMAIN all |->
                      IF \E j \in 1..(i - 1) : all[j] = all[i] THEN 0 ELSE all[i]],
                  LAMBDA r : r # 0)

\* main, all_roles_to_assign and the order of the loop: the set of the
\* roles of --roles (listed, the entries between the commas) and of the
\* bundle, sorted.
RolesInOrder(listed, bundle_name) ==
    LET resolved_roles == GetBundledRoles(bundle_name)
        all_roles_to_assign ==
            Range(listed) \cup {RoleNo(resolved_roles[i]) : i \in DOMAIN resolved_roles}
    IN  SortedSeq(all_roles_to_assign)

\* The Policy object built without the etag of the dict.
ToPolicyNoEtag(d) ==
    [version  |-> d.version,
     bindings |-> [i \in DOMAIN d.bindings |->
                      [role |-> d.bindings[i].role,
                       members |-> d.bindings[i].members,
                       cond |-> 0]],
     etag     |-> NoTag]

\* resourcemanager_v3.Policy(version=.., bindings=[Binding(role, members)..],
\* etag=..): every binding is rebuilt from role and members alone.
ToPolicy(d) ==
    [version  |-> d.version,
     bindings |-> [i \in DOMAIN d.bindings |->
                      [role |-> d.bindings[i].role,
                       members |-> d.bindings[i].members,
                       cond |-> 0]],
     etag     |-> d.etag]

(***************************************************************************)
(* deploy_project_owner_remove.py: the project of the Terraform state.     *)
(* What 'terraform show -json' gives is a record: rc is the exit status of *)
(* the command, json tells that its output holds a JSON object, root and   *)
(* child are the resources of the root module and of its child modules.    *)
(* A resource has its type and its values.project_id, "" when the key is   *)
(* absent, null or empty.                                                  *)
(***************************************************************************)
\* No project id: find_project_id_from_state has ended the invocation.
NoProject == ""

ResourceSet ==
    [type : {"google_project", "google_storage_bucket"}, project_id : {"", "p1", "p2"}]

\* The resources of child modules that could be taken for the project.
ChildResourceSet == [type : {"google_project"}, project_id : {"p1", "p2"}]

TerraformOutputs ==
    {[rc |-> 1, json |-> FALSE, root |-> <<>>, child |-> <<>>],
     [rc |-> 0, json |-> FALSE, root |-> <<>>, child |-> <<>>]}
    \cup {[rc |-> 0, json |-> TRUE, root |-> r, child |-> c] :
             r \in UNION {[1..n -> ResourceSet] : n \in 0..MaxResources},
             c \in UNION {[1..n -> ChildResourceSet] : n \in 0..MaxChildResources}}

\* The loop of find_project_id_from_state over a list of resources.
RECURSIVE FirstProject(_)
FirstProject(resources) ==
    IF resources = <<>> THEN NoProject
    ELSE IF Head(resources).type = "google_project" /\ Head(resources).project_id # ""
         THEN Head(resources).project_id
         ELSE FirstProject(Tail(resources))

\* find_project_id_from_state looking into the child modules as well.
FindProjectIdFromStateAnyModule(out) ==
    IF out.rc # 0 \/ ~out.json THEN NoProject
    ELSE FirstProject(out.root \o out.child)

\* find_project_id_from_state(): run_command ends the invocation when the
\* command fails or prints no JSON object; the loop runs over
\* values.root_module.resources.
FindProjectIdFromState(out) ==
    IF out.rc # 0 \/ ~out.json THEN NoProject
    ELSE FirstProject(out.root)

\* The Terraform states of the invocations: the command fails, prints no
\* JSON, an empty state, the project alone, the project after a resource of
\* another type and a google_project without id, a project in a child module
\* only.
StartOutputs ==
    {[rc |-> 1, json |-> FALSE, root |-> <<>>, child |-> <<>>],
     [rc |-> 0, json |-> FALSE, root |-> <<>>, child |-> <<>>],
     [rc |-> 0, json |-> TRUE, root |-> <<>>, child |-> <<>>],
     [rc |-> 0, json |-> TRUE, child |-> <<>>,
      root |-> <<[type |-> "google_project", project_id |-> "p1"]>>],
     [rc |-> 0, json |-> TRUE, child |-> <<>>,
      root |-> <<[type |-> "google_storage_bucket", project_id |-> "p2"],
                 [type |-> "google_project", project_id |-> ""],
                 [type |-> "google_project", project_id |-> "p1"]>>],
     [rc |-> 0, json |-> TRUE, root |-> <<>>,
      child |-> <<[type |-> "google_project", project_id |-> "p1"]>>]}

(***************************************************************************)
(* deploy_project_owner_remove.py: the owner removal.                      *)
(***************************************************************************)
\* Position of the first roles/owner binding, 0 when there is none.
OwnerIndex(policy) ==
    LET idxs == {i \in DOMAIN policy.bindings : policy.bindings[i].role = RoleOwner}
    IN  IF idxs = {} THEN 0 ELSE MinOf(idxs)

\* policy_modified
OwnerModified(policy, member_to_remove) ==
    /\ OwnerIndex(policy) # 0
    /\ member_to_remove \in Range(policy.bindings[OwnerIndex(policy)].members)

\* members.remove(member): the first occurrence goes; an emptied binding is
\* removed from the bindings.
RemoveOwner(policy, member_to_remove) ==
    IF ~OwnerModified(policy, member_to_remove) THEN policy
    ELSE LET i  == OwnerIndex(policy)
             ms == policy.bindings[i].members
             k  == MinOf({j \in DOMAIN ms : ms[j] = member_to_remove})
             left == RemoveAt(ms, k)
         IN  IF left = <<>>
             THEN [policy EXCEPT !.bindings = RemoveAt(policy.bindings, i)]
             ELSE [policy EXCEPT !.bindings[i].members = left]

(***************************************************************************)
(* The policy store (the project's IAM policy behind get/set_iam_policy).  *)
(***************************************************************************)
MemberLists == {<<m>> : m \in Members} \cup {SortedSeq(Members)}

BindingSet == [role : Roles, members : MemberLists, cond : {0, 1}]

\* The store merges bindings of one role and one condition: two bindings of
\* a role differ in their condition, so at most one of them has none.
StoreShaped(bs) ==
    \A i, j \in DOMAIN bs :
        (i < j /\ bs[i].role = bs[j].role) => (bs[i].cond = 1 \/ bs[j].cond = 1)

InitBindings ==
    {bs \in UNION {[1..n -> BindingSet] : n \in 0..MaxBindings} : StoreShaped(bs)}

VersionOf(bs) == IF \E i \in DOMAIN bs : bs[i].cond = 1 THEN 3 ELSE 1

InitPolicyDocs ==
    {[version |-> VersionOf(bs), bindings |-> bs, etag |-> t] :
        bs \in InitBindings, t \in {NoTag, 1}}

\* set_iam_policy on the store: a policy that carries an etag is taken only
\* when the etag is the store's; one without etag overwrites blindly.
StoreAccepts(p) == p.etag = NoTag \/ p.etag = policyStore.etag

\* The store's document after an accepted write of p: a new etag.
StoreWrite(p) ==
    [version |-> p.version, bindings |-> p.bindings, etag |-> policyStore.etag + 1]

(***************************************************************************)
(* One invocation of a policy workflow.                                    *)
(***************************************************************************)
PinvOff ==
    [wf |-> "none", pc |-> "off", mode |-> "none", member |-> 0, roles |-> {},
     bundle |-> "", project |-> NoProject,
     fetched |-> NoDoc, modified |-> NoDoc, policy |-> NoDoc, written |-> NoDoc,
     reported |-> NoDoc, err |-> "none", writes |-> 0, tempFile |-> FALSE]

PTerminal == {"Done", "Failed"}

\* assign_iam_roles.main up to the fetch: the arguments are parsed and the
\* role set is built from --roles and the bundle; an unknown bundle ends the
\* invocation with exit status 1, an empty role set with exit status 0.
AIR_Start ==
    /\ pinv.pc = "start"
    /\ \E mode \in {"dry-run", "apply"}, m \in Members, b \in BundleArgs :
        \E rs \in RoleArgs(b) :
          LET resolved_roles == GetBundledRoles(b)
              all_roles_to_assign ==
                  rs \cup {RoleNo(resolved_roles[i]) : i \in DOMAIN resolved_roles}
          IN  IF b # "" /\ resolved_roles = <<>>
              THEN pinv' = [pinv EXCEPT !.wf = "air", !.mode = mode,
                                        !.member = m, !.roles = rs, !.bundle = b,
                                        !.pc = "Failed", !.err = "UnknownBundle"]
              ELSE pinv' = [pinv EXCEPT !.wf = "air", !.mode = mode,
                                        !.member = m, !.bundle = b,
                                        !.roles = all_roles_to_assign,
                                        !.pc = IF all_roles_to_assign = {}
                                               THEN "Done" ELSE "fetch"]
    /\ UNCHANGED <<policyStore, addrVars, diff, vecVars>>

\* main, "Fetch current IAM policy" with the exception swallowed: the run
\* goes on with the store's document unread.
AIR_FetchIgnoreError ==
    /\ pinv.wf = "air" /\ pinv.pc = "fetch"
    /\ \E failed \in BOOLEAN :
          LET modified == ApplyDesiredRoles(policyStore, pinv.roles, pinv.member)
          IN  pinv' = [pinv EXCEPT !.fetched = policyStore,
                                   !.modified = modified,
                                   !.policy = ToPolicy(modified),
                                   !.err = IF failed THEN "FetchError" ELSE "none",
                                   !.pc = IF pinv.mode = "dry-run"
                                          THEN "dryrun" ELSE "apply"]
    /\ UNCHANGED <<policyStore, addrVars, diff, vecVars>>

\* main, "Fetch current IAM policy" and "Modify policy": get_iam_policy, the
\* diff on the dict and the Policy object built from it.
AIR_Fetch ==
    /\ pinv.wf = "air" /\ pinv.pc = "fetch"
    /\ \/ pinv' = [pinv EXCEPT !.pc = "Failed", !.err = "FetchError"]
       \/ LET modified == ApplyDesiredRoles(policyStore, pinv.roles, pinv.member)
          IN  pinv' = [pinv EXCEPT !.fetched = policyStore,
                                   !.modified = modified,
                                   !.policy = ToPolicy(modified),
                                   !.pc = IF pinv.mode = "dry-run"
                                          THEN "dryrun" ELSE "apply"]
    /\ UNCHANGED <<policyStore, addrVars, diff, vecVars>>

\* main, mode == "dry-run": the modified dict is printed; the decode of the
\* etag for display can raise, which ends the invocation before the print.
AIR_DryRun ==
    /\ pinv.wf = "air" /\ pinv.pc = "dryrun"
    /\ \/ pinv' = [pinv EXCEPT !.reported = pinv.modified, !.pc = "Done"]
       \/ pinv' = [pinv EXCEPT !.pc = "Failed", !.err = "DisplayError"]
    /\ UNCHANGED <<policyStore, addrVars, diff, vecVars>>

\* main, mode == "apply", with a store that has taken the bindings of a
\* write it then rejects.
AIR_ApplyPartial ==
    /\ pinv.wf = "air" /\ pinv.pc = "apply"
    /\ \/ /\ StoreAccepts(pinv.policy)
          /\ pinv' = [pinv EXCEPT !.written = pinv.policy, !.writes = @ + 1,
                                  !.pc = "Done"]
          /\ policyStore' = StoreWrite(pinv.policy)
       \/ /\ pinv' = [pinv EXCEPT !.written = pinv.policy, !.writes = @ + 1,
                                  !.pc = "Failed", !.err = "StoreUnavailable"]
          /\ policyStore' = [policyStore EXCEPT !.bindings = pinv.policy.bindings]
    /\ UNCHANGED <<addrVars, diff, vecVars>>

\* main, mode == "apply": one set_iam_policy call; any exception of the try
\* block ends the invocation with exit status 1, also one raised by the
\* conversion and print of the answer to an accepted write.
AIR_Apply ==
    /\ pinv.wf = "air" /\ pinv.pc = "apply"
    /\ \/ /\ StoreAccepts(pinv.policy)
          /\ \/ pinv' = [pinv EXCEPT !.written = pinv.policy, !.writes = @ + 1,
                                     !.pc = "Done"]
             \/ pinv' = [pinv EXCEPT !.written = pinv.policy, !.writes = @ + 1,
                                     !.pc = "Failed", !.err = "ReportError"]
          /\ policyStore' = StoreWrite(pinv.policy)
       \/ /\ ~StoreAccepts(pinv.policy)
          /\ pinv' = [pinv EXCEPT !.written = pinv.policy, !.writes = @ + 1,
                                  !.pc = "Failed", !.err = "Conflict"]
          /\ UNCHANGED policyStore
       \/ /\ pinv' = [pinv EXCEPT !.written = pinv.policy, !.writes = @ + 1,
                                  !.pc = "Failed", !.err = "StoreUnavailable"]
          /\ UNCHANGED policyStore
    /\ UNCHANGED <<addrVars, diff, vecVars>>

\* deploy_project_owner_remove.main up to the fetch: the project id comes
\* from the Terraform state, or the invocation ends.
OPR_Start ==
    /\ pinv.pc = "start"
    /\ \E m \in Members, out \in StartOutputs :
          LET project_id == FindProjectIdFromState(out)
          IN  IF project_id = NoProject
              THEN pinv' = [pinv EXCEPT !.wf = "opr", !.mode = "apply", !.member = m,
                                        !.pc = "Failed", !.err = "NoProject"]
              ELSE pinv' = [pinv EXCEPT !.wf = "opr", !.mode = "apply", !.member = m,
                                        !.project = project_id, !.pc = "fetch"]
    /\ UNCHANGED <<policyStore, addrVars, diff, vecVars>>

\* main, steps 2/4 and 3/4 and the staging of step 4/4: get-iam-policy, the
\* etag test, the owner removal, the payload file.  open and json.dump of
\* the payload run before the try block: an exception there ends the
\* invocation with the file absent (open failed) or left behind.
OPR_Fetch ==
    /\ pinv.wf = "opr" /\ pinv.pc = "fetch"
    /\ \/ pinv' = [pinv EXCEPT !.pc = "Failed", !.err = "FetchError"]
       \/ /\ policyStore.etag = NoTag
          /\ pinv' = [pinv EXCEPT !.fetched = policyStore,
                                  !.pc = "Failed", !.err = "MissingToken"]
       \/ /\ policyStore.etag # NoTag
          /\ OwnerModified(policyStore, pinv.member)
          /\ \E left \in BOOLEAN :
                pinv' = [pinv EXCEPT !.fetched = policyStore,
                                     !.modified = RemoveOwner(policyStore, pinv.member),
                                     !.tempFile = left,
                                     !.pc = "Failed", !.err = "StageError"]
       \/ /\ policyStore.etag # NoTag
          /\ pinv' =
               IF OwnerModified(policyStore, pinv.member)
               THEN [pinv EXCEPT !.fetched = policyStore,
                                 !.modified = RemoveOwner(policyStore, pinv.member),
                                 !.policy = RemoveOwner(policyStore, pinv.member),
                                 !.tempFile = TRUE,
                                 !.pc = "set"]
               ELSE [pinv EXCEPT !.fetched = policyStore,
                                 !.modified = policyStore,
                                 !.pc = "Done"]
    /\ UNCHANGED <<policyStore, addrVars, diff, vecVars>>

\* main, step 4/4: gcloud set-iam-policy on the payload file; run_command
\* exits on a failed command, the finally clause removes the file.
OPR_Set ==
    /\ pinv.wf = "opr" /\ pinv.pc = "set"
    /\ \/ /\ StoreAccepts(pinv.policy)
          /\ pinv' = [pinv EXCEPT !.written = pinv.policy, !.writes = @ + 1,
                                  !.tempFile = FALSE, !.pc = "Done"]
          /\ policyStore' = StoreWrite(pinv.policy)
       \/ /\ ~StoreAccepts(pinv.policy)
          /\ pinv' = [pinv EXCEPT !.written = pinv.policy, !.writes = @ + 1,
                                  !.tempFile = FALSE,
                                  !.pc = "Failed", !.err = "Conflict"]
          /\ UNCHANGED policyStore
       \/ /\ pinv' = [pinv EXCEPT !.written = pinv.policy, !.writes = @ + 1,
                                  !.tempFile = FALSE,
                                  !.pc = "Failed", !.err = "StoreUnavailable"]
          /\ UNCHANGED policyStore
    /\ UNCHANGED <<addrVars, diff, vecVars>>

\* Another writer of the same policy (a person, another tool, another run)
\* between the invocation's fetch and its last step: it grants a role and the
\* store issues a new etag.  What others wrote before the fetch is part of
\* the initial document.
OtherWriter ==
    /\ pinv.pc \in {"dryrun", "apply", "set"}
    /\ policyStore.etag - pinv.fetched.etag < MaxOtherWrites
    /\ \E r \in Roles, m \in Members :
          policyStore' =
              [AddOrUpdateBinding(policyStore, r, m) EXCEPT !.etag = policyStore.etag + 1]
    /\ UNCHANGED <<pinv, addrVars, diff, vecVars>>

NextPolicy ==
    \/ AIR_Start \/ AIR_Fetch \/ AIR_DryRun \/ AIR_Apply
    \/ OPR_Start \/ OPR_Fetch \/ OPR_Set
    \/ OtherWriter

(***************************************************************************)
(* The address store (the IPAM behind the WAPI /network objects).  A block *)
(* is known by its _ref, here its position in addrStore; a deleted block   *)
(* stays in the sequence with live = FALSE.                                *)
(***************************************************************************)
Procs == {1, 2}
Views == {1, 2}
Nets == {1, 2}
Labels == {1, 2}

\* The store and the workflows treat all views, networks and labels alike, so
\* the first invocation is taken to name view 1, network 1 and label 1; the
\* other invocation and the initial store range over all of them.  The first
\* invocation runs any of the four workflows; the other one runs a workflow
\* with separate allocate and create calls (SecondWf), whose reserve and
\* delete requests are those in.py and infob-auomation send.
SecondWf == {"v2", "rc"}
WfOf(p) == IF p = 1 THEN {"in", "v1", "v2", "rc"} ELSE SecondWf

ArgViews(p) == IF p = 1 THEN {1} ELSE Views
ArgNets(p) == IF p = 1 THEN {1} ELSE Nets
ArgLabels(p) == IF p = 1 THEN {1} ELSE Labels

BlockSet == [view : Views, net : Nets, label : Labels, live : {TRUE}]

BlockRank(b) == (b.view * 4) + (b.net * 2) + b.label

\* The initial stores, one per multiset of blocks.  Two blocks of one view
\* and network are what the matcher of a delete must be able to tell.
InitAddrStores ==
    {bs \in UNION {[1..n -> BlockSet] : n \in 0..MaxInitBlocks} :
        \A i, j \in DOMAIN bs : i < j => BlockRank(bs[i]) <= BlockRank(bs[j])}

\* GET /network?network_view=..&network=..&comment=..: the refs of the live
\* blocks equal to the triple.
Matching(view, net, label) ==
    {i \in DOMAIN addrStore :
        /\ addrStore[i].live
        /\ addrStore[i].view = view
        /\ addrStore[i].net = net
        /\ addrStore[i].label = label}

Taken(view, net) ==
    \E i \in DOMAIN addrStore :
        addrStore[i].live /\ addrStore[i].view = view /\ addrStore[i].net = net

\* The networks the store can offer as next available in the view.
FreeNets(view) == {n \in Nets : ~Taken(view, n)}

\* The store after POST /network for a block.
Created(view, net, label) ==
    Append(addrStore, [view |-> view, net |-> net, label |-> label, live |-> TRUE])

\* The store after a DELETE that takes every block of the ref's view and
\* network.
DeletedByNetwork(ref) ==
    [i \in DOMAIN addrStore |->
        IF addrStore[i].view = addrStore[ref].view /\ addrStore[i].net = addrStore[ref].net
        THEN [addrStore[i] EXCEPT !.live = FALSE]
        ELSE addrStore[i]]

\* The store after DELETE of a ref.
Deleted(ref) == [addrStore EXCEPT ![ref].live = FALSE]

\* allocs counts the invocation's allocation requests (next available
\* network, also when the same request creates the block), creates its
\* POST /network requests for a named block, deletes its DELETE requests;
\* found is the number of matches its lookup returned (-1: none answered).
AinvOff ==
    [wf |-> "none", pc |-> "off", op |-> "none", dry |-> FALSE, view |-> 0,
     net |-> 0, label |-> 0, avail |-> 0, found |-> -1, ref |-> 0,
     err |-> "none", allocs |-> 0, creates |-> 0, deletes |-> 0, created |-> 0]

ATerminal == {"Done", "Failed"}

Fail(p, e) == [ainv EXCEPT ![p].pc = "Failed", ![p].err = e]

(***************************************************************************)
(* in.py                                                                   *)
(***************************************************************************)
\* __main__ and the head of reserve_ip / delete_reservation, dry_run test
\* dropped: the request is always sent.
IN_StartNoDryRun(p) ==
    /\ ainv[p].pc = "start" /\ "in" \in WfOf(p)
    /\ \E op \in {"reserve", "delete"}, dry \in BOOLEAN, v \in ArgViews(p),
          n \in ArgNets(p), l \in ArgLabels(p) :
          ainv' = [ainv EXCEPT ![p] =
                      [@ EXCEPT !.wf = "in", !.op = op, !.dry = dry, !.view = v,
                                !.net = IF op = "delete" THEN n ELSE 0,
                                !.label = l,
                                !.pc = IF op = "reserve" THEN "post" ELSE "query"]]
    /\ UNCHANGED <<policyVars, addrStore, diff, vecVars>>

\* __main__ and the head of reserve_ip / delete_reservation: with dry_run the
\* function returns before any request.
IN_Start(p) ==
    /\ ainv[p].pc = "start" /\ "in" \in WfOf(p)
    /\ \E op \in {"reserve", "delete"}, dry \in BOOLEAN, v \in ArgViews(p),
          n \in ArgNets(p), l \in ArgLabels(p) :
          ainv' = [ainv EXCEPT ![p] =
                      [@ EXCEPT !.wf = "in", !.op = op, !.dry = dry, !.view = v,
                                !.net = IF op = "delete" THEN n ELSE 0,
                                !.label = l,
                                !.pc = IF dry THEN "Done"
                                       ELSE IF op = "reserve" THEN "post"
                                       ELSE "query"]]
    /\ UNCHANGED <<policyVars, addrStore, diff, vecVars>>

\* POST /network with func:nextavailablenetwork: the store allocates and
\* creates in one call; any status but 201 raises, and so does an answer to
\* an accepted request that is not an object with a 'network' key.
ReservePost(p) ==
    /\ ainv[p].pc = "post"
    /\ \/ /\ ainv' = [Fail(p, "StoreUnavailable") EXCEPT ![p].allocs = @ + 1]
          /\ UNCHANGED addrStore
       \/ /\ FreeNets(ainv[p].view) = {}
          /\ ainv' = [Fail(p, "NoCapacity") EXCEPT ![p].allocs = @ + 1]
          /\ UNCHANGED addrStore
       \/ \E n \in FreeNets(ainv[p].view) :
             /\ addrStore' = Created(ainv[p].view, n, ainv[p].label)
             /\ \/ ainv' = [ainv EXCEPT ![p].allocs = @ + 1, ![p].created = n,
                                        ![p].pc = "Done"]
                \/ ainv' = [Fail(p, "BadResponse") EXCEPT
                               ![p].allocs = @ + 1, ![p].created = n]
    /\ UNCHANGED <<policyVars, diff, vecVars>>

\* The lookup of a delete: GET /network for the triple; an error status or an
\* empty list ends the invocation in failure, otherwise the first match's
\* _ref is taken.
DeleteQuery(p) ==
    /\ ainv[p].pc = "query"
    /\ LET ms == Matching(ainv[p].view, ainv[p].net, ainv[p].label)
       IN  \/ ainv' = Fail(p, "StoreUnavailable")
           \/ /\ ms = {}
              /\ ainv' = [Fail(p, "NotFound") EXCEPT ![p].found = 0]
           \/ /\ ms # {}
              /\ ainv' = [ainv EXCEPT ![p].found = Cardinality(ms),
                                      ![p].ref = MinOf(ms), ![p].pc = "delete"]
    /\ UNCHANGED <<policyVars, addrStore, diff, vecVars>>

\* DELETE of the _ref; any status but success ends the invocation in failure.
DeleteCall(p) ==
    /\ ainv[p].pc = "delete"
    /\ \/ /\ ainv' = [Fail(p, "StoreUnavailable") EXCEPT ![p].deletes = @ + 1]
          /\ UNCHANGED addrStore
       \/ /\ ~addrStore[ainv[p].ref].live
          /\ ainv' = [Fail(p, "NotFound") EXCEPT ![p].deletes = @ + 1]
          /\ UNCHANGED addrStore
       \/ /\ addrStore[ainv[p].ref].live
          /\ addrStore' = Deleted(ainv[p].ref)
          /\ ainv' = [ainv EXCEPT ![p].deletes = @ + 1, ![p].pc = "Done"]
    /\ UNCHANGED <<policyVars, diff, vecVars>>

\* reserve_ip, the POST
IN_ReservePost(p) == ainv[p].wf = "in" /\ ReservePost(p)
\* delete_reservation, the GET
IN_DeleteQuery(p) == ainv[p].wf = "in" /\ DeleteQuery(p)
\* delete_reservation, the DELETE
IN_DeleteCall(p) == ainv[p].wf = "in" /\ DeleteCall(p)

(***************************************************************************)
(* infob-auomation/infob_ip.py                                             *)
(***************************************************************************)
V1_Start(p) ==
    /\ ainv[p].pc = "start" /\ "v1" \in WfOf(p)
    /\ \E op \in {"reserve", "delete"}, v \in ArgViews(p), n \in ArgNets(p),
          l \in ArgLabels(p) :
          ainv' = [ainv EXCEPT ![p] =
                      [@ EXCEPT !.wf = "v1", !.op = op, !.view = v,
                                !.net = IF op = "delete" THEN n ELSE 0,
                                !.label = l,
                                !.pc = IF op = "reserve" THEN "container"
                                       ELSE "query"]]
    /\ UNCHANGED <<policyVars, addrStore, diff, vecVars>>

\* reserve_ip, "Verify Supernet Availability": GET /networkcontainer.
V1_Container(p) ==
    /\ ainv[p].wf = "v1" /\ ainv[p].pc = "container"
    /\ \/ ainv' = Fail(p, "SupernetNotFound")
       \/ ainv' = [ainv EXCEPT ![p].pc = "post"]
    /\ UNCHANGED <<policyVars, addrStore, diff, vecVars>>

V1_ReservePost(p) == ainv[p].wf = "v1" /\ ReservePost(p)
V1_DeleteQuery(p) == ainv[p].wf = "v1" /\ DeleteQuery(p)
V1_DeleteCall(p) == ainv[p].wf = "v1" /\ DeleteCall(p)

(***************************************************************************)
(* infob-auomation-v2/infob_ip.py                                          *)
(***************************************************************************)
\* main up to the first store request of the operation: the operation name,
\* the credentials file and the session, which can end the invocation, then
\* the operation's arguments and the network view ref.
V2_Start(p) ==
    /\ ainv[p].pc = "start" /\ "v2" \in WfOf(p)
    /\ \E op \in {"reserve", "delete"} :
          \/ \E v \in ArgViews(p), n \in ArgNets(p), l \in ArgLabels(p) :
                ainv' = [ainv EXCEPT ![p] =
                           [@ EXCEPT !.wf = "v2", !.op = op, !.view = v,
                                     !.net = IF op = "delete" THEN n ELSE 0,
                                     !.label = l,
                                     !.pc = IF op = "reserve" THEN "avail"
                                            ELSE "query"]]
          \/ ainv' = [ainv EXCEPT ![p] =
                        [@ EXCEPT !.wf = "v2", !.op = op,
                                  !.pc = "Failed", !.err = "StoreUnavailable"]]
    /\ UNCHANGED <<policyVars, addrStore, diff, vecVars>>

\* find_available_cidr with a failed request asked again.
V2_FindAvailableRetry(p) ==
    /\ ainv[p].wf = "v2" /\ ainv[p].pc = "avail" /\ ainv[p].allocs < 2
    /\ \/ ainv' = [Fail(p, "StoreUnavailable") EXCEPT ![p].allocs = @ + 1]
       \/ /\ FreeNets(ainv[p].view) = {}
          /\ ainv' = [ainv EXCEPT ![p].allocs = @ + 1, ![p].err = "NoCapacity"]
       \/ \E n \in FreeNets(ainv[p].view) :
             ainv' = [ainv EXCEPT ![p].allocs = @ + 1, ![p].avail = n,
                                  ![p].pc = "create"]
    /\ UNCHANGED <<policyVars, addrStore, diff, vecVars>>

\* main, reserve: find_available_cidr (POST /network/available); None, from
\* an empty answer or a failed request, ends the invocation with status 1.
V2_FindAvailable(p) ==
    /\ ainv[p].wf = "v2" /\ ainv[p].pc = "avail"
    /\ \/ ainv' = [Fail(p, "StoreUnavailable") EXCEPT ![p].allocs = @ + 1]
       \/ /\ FreeNets(ainv[p].view) = {}
          /\ ainv' = [Fail(p, "NoCapacity") EXCEPT ![p].allocs = @ + 1]
       \/ \E n \in FreeNets(ainv[p].view) :
             ainv' = [ainv EXCEPT ![p].allocs = @ + 1, ![p].avail = n,
                                  ![p].pc = "create"]
    /\ UNCHANGED <<policyVars, addrStore, diff, vecVars>>

\* reserve_cidr with a rejected create sent back to the allocation.
V2_ReserveRetry(p) ==
    /\ ainv[p].wf = "v2" /\ ainv[p].pc = "create" /\ ainv[p].creates < 2
    /\ \/ /\ ainv' = [Fail(p, "StoreUnavailable") EXCEPT ![p].creates = @ + 1]
          /\ UNCHANGED addrStore
       \/ /\ Taken(ainv[p].view, ainv[p].avail)
          /\ ainv' = [ainv EXCEPT ![p].creates = @ + 1, ![p].pc = "avail",
                                  ![p].err = "AlreadyExists"]
          /\ UNCHANGED addrStore
       \/ /\ ~Taken(ainv[p].view, ainv[p].avail)
          /\ addrStore' = Created(ainv[p].view, ainv[p].avail, ainv[p].label)
          /\ ainv' = [ainv EXCEPT ![p].creates = @ + 1,
                                  ![p].created = ainv[p].avail, ![p].pc = "Done"]
    /\ UNCHANGED <<policyVars, diff, vecVars>>

\* main, reserve: the supernet reads (their errors are ignored), the output
\* files and reserve_cidr (POST /network); None, from a failed request or
\* from an answer to an accepted request that is not JSON with a _ref, ends
\* the invocation with status 1.
V2_Reserve(p) ==
    /\ ainv[p].wf = "v2" /\ ainv[p].pc = "create"
    /\ \/ /\ ainv' = [Fail(p, "StoreUnavailable") EXCEPT ![p].creates = @ + 1]
          /\ UNCHANGED addrStore
       \/ /\ Taken(ainv[p].view, ainv[p].avail)
          /\ ainv' = [Fail(p, "AlreadyExists") EXCEPT ![p].creates = @ + 1]
          /\ UNCHANGED addrStore
       \/ /\ ~Taken(ainv[p].view, ainv[p].avail)
          /\ addrStore' = Created(ainv[p].view, ainv[p].avail, ainv[p].label)
          /\ \/ ainv' = [ainv EXCEPT ![p].creates = @ + 1,
                                     ![p].created = ainv[p].avail,
                                     ![p].pc = "Done"]
             \/ ainv' = [Fail(p, "BadResponse") EXCEPT
                            ![p].creates = @ + 1, ![p].created = ainv[p].avail]
    /\ UNCHANGED <<policyVars, diff, vecVars>>

\* delete_cidr, the GET: an empty list returns False, otherwise the loop's
\* first object is taken.
V2_DeleteQuery(p) == ainv[p].wf = "v2" /\ DeleteQuery(p)
\* delete_cidr, the DELETE of the first object and the return from the loop.
V2_DeleteCall(p) == ainv[p].wf = "v2" /\ DeleteCall(p)

(***************************************************************************)
(* infoblox/infoblox_reserve_cidr.py                                       *)
(***************************************************************************)
\* The characters str.strip() takes off.
Whitespace == {" ", "\t"}

\* s.strip(), of a string as the sequence of its characters
RECURSIVE LStrip(_)
LStrip(s) ==
    IF s # <<>> /\ Head(s) \in Whitespace THEN LStrip(Tail(s)) ELSE s

RECURSIVE RStrip(_)
RStrip(s) ==
    IF s # <<>> /\ s[Len(s)] \in Whitespace THEN RStrip(SubSeq(s, 1, Len(s) - 1)) ELSE s

Strip(s) == RStrip(LStrip(s))

\* The values of --network-view, --supernet-ip, --subnet-name (as character
\* sequences) and --cidr-block-size (an int: argparse type=int).
NetworkViewArgs == {"", " ", "default"}

SupernetArgs ==
    {"", "10.0.0.0/8", "10.0.0.5/8", "10.0.0.1", "2001:db8::/32", "10.0.0.0/33",
     "ten", " 10.0.0.0/8"}

SubnetNameArgs == UNION {[1..n -> Whitespace \cup {"a"}] : n \in 0..MaxNameLen}

BlockSizeArgs == {-1, 0, 1, 32, 33}

\* ipaddress.ip_network(supernet_ip, strict=False) does not raise: an IPv4
\* or IPv6 address, alone or with a prefix length in range, host bits allowed.
IpNetworkParses(supernet_ip) ==
    supernet_ip \in {"10.0.0.0/8", "10.0.0.5/8", "10.0.0.1", "2001:db8::/32"}

\* validate_inputs without the test of a subnet name of whitespace.
ValidateInputsNoStrip(network_view, supernet_ip, subnet_name, cidr_block_size) ==
    IF network_view = "" \/ supernet_ip = "" \/ subnet_name = <<>> THEN FALSE
    ELSE IF ~(1 <= cidr_block_size /\ cidr_block_size <= 32) THEN FALSE
    ELSE IpNetworkParses(supernet_ip)

\* validate_inputs(network_view, supernet_ip, subnet_name,
\* cidr_block_size_str): all([...]) (str of the size is never empty), the
\* range of the size, the parse of the supernet, the strip of the name.
ValidateInputs(network_view, supernet_ip, subnet_name, cidr_block_size) ==
    IF network_view = "" \/ supernet_ip = "" \/ subnet_name = <<>> THEN FALSE
    ELSE IF ~(1 <= cidr_block_size /\ cidr_block_size <= 32) THEN FALSE
    ELSE IF ~IpNetworkParses(supernet_ip) THEN FALSE
    ELSE IF Strip(subnet_name) = <<>> THEN FALSE
    ELSE TRUE

\* The arguments of the invocations, as far as validate_inputs goes: valid
\* ones, a size out of range, a supernet that does not parse, a subnet name
\* of blanks.
StartInputs ==
    {<<"default", "10.0.0.0/8", <<"a">>, 32>>,
     <<"default", "10.0.0.0/8", <<"a">>, 33>>,
     <<"default", "ten", <<"a">>, 32>>,
     <<"default", "10.0.0.0/8", <<" ">>, 32>>}

\* main up to the action: the credentials of the environment,
\* validate_inputs, the session object (no request is sent for it), and for
\* apply the test of --proposed-subnet (0: not given).
RC_Start(p) ==
    /\ ainv[p].pc = "start" /\ "rc" \in WfOf(p)
    /\ \E act \in {"dry-run", "apply"},
          valid \in {ValidateInputs(i[1], i[2], i[3], i[4]) : i \in StartInputs} :
          \/ ainv' = [ainv EXCEPT ![p] =
                        [@ EXCEPT !.wf = "rc", !.op = "reserve",
                                  !.dry = (act = "dry-run"),
                                  !.pc = "Failed", !.err = "NoCredentials"]]
          \/ /\ ~valid
             /\ ainv' = [ainv EXCEPT ![p] =
                           [@ EXCEPT !.wf = "rc", !.op = "reserve",
                                     !.dry = (act = "dry-run"),
                                     !.pc = "Failed", !.err = "InvalidInput"]]
          \/ /\ valid
             /\ \E v \in ArgViews(p), l \in ArgLabels(p) :
                   \/ /\ act = "dry-run"
                      /\ ainv' = [ainv EXCEPT ![p] =
                                    [@ EXCEPT !.wf = "rc", !.op = "reserve",
                                              !.dry = TRUE, !.view = v, !.label = l,
                                              !.pc = "avail"]]
                   \/ /\ act = "apply"
                      /\ \E n \in ArgNets(p) \cup {0} :
                            ainv' = [ainv EXCEPT ![p] =
                                       [@ EXCEPT !.wf = "rc", !.op = "reserve",
                                                 !.dry = FALSE, !.view = v,
                                                 !.label = l, !.avail = n,
                                                 !.pc = IF n = 0 THEN "Failed"
                                                        ELSE "create",
                                                 !.err = IF n = 0
                                                         THEN "MissingProposed"
                                                         ELSE "none"]]
    /\ UNCHANGED <<policyVars, addrStore, diff, vecVars>>

\* main, dry-run: find_next_available_cidr (GET /network); None ends the
\* invocation with status 1, a proposed subnet is printed.
RC_DryRun(p) ==
    /\ ainv[p].wf = "rc" /\ ainv[p].pc = "avail"
    /\ \/ ainv' = [Fail(p, "StoreUnavailable") EXCEPT ![p].allocs = @ + 1]
       \/ /\ FreeNets(ainv[p].view) = {}
          /\ ainv' = [Fail(p, "NoCapacity") EXCEPT ![p].allocs = @ + 1]
       \/ \E n \in FreeNets(ainv[p].view) :
             ainv' = [ainv EXCEPT ![p].allocs = @ + 1, ![p].avail = n,
                                  ![p].pc = "Done"]
    /\ UNCHANGED <<policyVars, addrStore, diff, vecVars>>

\* main, apply: reserve_cidr (POST /network) of --proposed-subnet; False,
\* from a failed request or from an answer to an accepted request that is
\* not JSON, ends the invocation with status 1.
RC_Apply(p) ==
    /\ ainv[p].wf = "rc" /\ ainv[p].pc = "create"
    /\ \/ /\ ainv' = [Fail(p, "StoreUnavailable") EXCEPT ![p].creates = @ + 1]
          /\ UNCHANGED addrStore
       \/ /\ Taken(ainv[p].view, ainv[p].avail)
          /\ ainv' = [Fail(p, "AlreadyExists") EXCEPT ![p].creates = @ + 1]
          /\ UNCHANGED addrStore
       \/ /\ ~Taken(ainv[p].view, ainv[p].avail)
          /\ addrStore' = Created(ainv[p].view, ainv[p].avail, ainv[p].label)
          /\ \/ ainv' = [ainv EXCEPT ![p].creates = @ + 1,
                                     ![p].created = ainv[p].avail,
                                     ![p].pc = "Done"]
             \/ ainv' = [Fail(p, "BadResponse") EXCEPT
                            ![p].creates = @ + 1, ![p].created = ainv[p].avail]
    /\ UNCHANGED <<policyVars, diff, vecVars>>

NextAddr ==
    \E p \in Procs :
        \/ IN_Start(p) \/ IN_ReservePost(p) \/ IN_DeleteQuery(p) \/ IN_DeleteCall(p)
        \/ V1_Start(p) \/ V1_Container(p) \/ V1_ReservePost(p)
        \/ V1_DeleteQuery(p) \/ V1_DeleteCall(p)
        \/ V2_Start(p) \/ V2_FindAvailable(p) \/ V2_Reserve(p)
        \/ V2_DeleteQuery(p) \/ V2_DeleteCall(p)
        \/ RC_Start(p) \/ RC_DryRun(p) \/ RC_Apply(p)

(***************************************************************************)
(* The binding diff on its own: ApplyDesiredRoles applied to any document, *)
(* then to its own result.                                                 *)
(***************************************************************************)
DiffMemberLists == UNION {[1..n -> Members] : n \in 0..2}

DiffBindingSet == [role : Roles, members : DiffMemberLists, cond : {0, 1}]

DiffDocs ==
    {[version |-> 1, bindings |-> bs, etag |-> 1] :
        bs \in UNION {[1..n -> DiffBindingSet] : n \in 0..MaxDiffBindings}}

\* The dicts of a single call of add_or_update_binding: the bindings a
\* store can hold, in any combination, and the dicts without a list.
CallDocs ==
    {[version |-> 1, bindings |-> bs, etag |-> 1] :
        bs \in UNION {[1..n -> BindingSet] : n \in 0..MaxBindings}}
    \cup {[version |-> 1, etag |-> 1, nolist |-> k] : k \in {"absent", "None"}}

\* The ways to list roles in --roles, the bundles given with them (not
\* given, one role of Roles, five roles listed out of string order) and the
\* fetched dicts of two runs that are compared.
RoleLists == UNION {[1..n -> Roles] : n \in 0..MaxListed}

ListedBundles == {"", "GenAppBuilderUser", "GenAIViewer"}

ListedDocs ==
    {[version |-> 1, bindings |-> bs, etag |-> 1] :
        bs \in UNION {[1..n -> BindingSet] : n \in 0..MaxListedBindings}}

DiffOff == [pc |-> "off", doc |-> NoDoc, member |-> 0, roles |-> {},
            once |-> NoDoc, twice |-> NoDoc, bundle |-> "", resolved_roles |-> <<>>,
            listed |-> <<>>, differ |-> FALSE,
            out |-> NoDoc, project_id |-> NoProject,
            inputs |-> <<>>, valid |-> FALSE]

\* main, "Modify policy", on a fetched dict (once) and on the dict that run
\* produced (twice)
Diff_Apply ==
    /\ diff.pc = "start"
    /\ \E m \in Members, rs \in SUBSET Roles :
          LET once == ApplyDesiredRoles(diff.doc, rs, m)
          IN  diff' = [diff EXCEPT !.member = m, !.roles = rs,
                                   !.once = once,
                                   !.twice = ApplyDesiredRoles(once, rs, m),
                                   !.pc = "done"]
    /\ UNCHANGED <<policyVars, addrVars, vecVars>>

\* add_or_update_binding called once, on any dict
Binding_Call ==
    /\ diff.pc = "call"
    /\ \E r \in Roles, m \in Members :
          diff' = [diff EXCEPT !.member = m, !.roles = {r},
                               !.once = AddOrUpdateBinding(diff.doc, r, m),
                               !.pc = "returned"]
    /\ UNCHANGED <<policyVars, addrVars, vecVars>>

\* main, "Modify policy", in two runs on the same fetched dict for the same
\* principal: the first with listed and bundle (once), the second with any
\* --roles and bundle that give the same role set (twice); differ tells
\* that the second run's arguments are not the first's.
Diff_Listed ==
    /\ diff.pc = "listed"
    /\ \E m \in Members, l1, l2 \in RoleLists, b1, b2 \in ListedBundles :
          /\ Range(RolesInOrder(l1, b1)) = Range(RolesInOrder(l2, b2))
          /\ diff' = [diff EXCEPT
                        !.member = m, !.listed = l1, !.bundle = b1,
                        !.roles = Range(RolesInOrder(l1, b1)),
                        !.differ = (l1 # l2 \/ b1 # b2),
                        !.once = ApplyRoleSeq(diff.doc, RolesInOrder(l1, b1), m),
                        !.twice = ApplyRoleSeq(diff.doc, RolesInOrder(l2, b2), m),
                        !.pc = "ran"]
    /\ UNCHANGED <<policyVars, addrVars, vecVars>>

\* find_project_id_from_state on what the terraform command gave
State_Find ==
    /\ diff.pc = "state"
    /\ diff' = [diff EXCEPT !.project_id = FindProjectIdFromState(diff.out),
                            !.pc = "found"]
    /\ UNCHANGED <<policyVars, addrVars, vecVars>>

\* validate_inputs applied to the four arguments
Inputs_Validate ==
    /\ diff.pc = "inputs"
    /\ diff' = [diff EXCEPT !.valid = ValidateInputs(diff.inputs[1], diff.inputs[2],
                                                     diff.inputs[3], diff.inputs[4]),
                            !.pc = "validated"]
    /\ UNCHANGED <<policyVars, addrVars, vecVars>>

\* get_bundled_roles applied to a name
Bundle_Resolve ==
    /\ diff.pc = "bundle"
    /\ diff' = [diff EXCEPT !.resolved_roles = GetBundledRoles(diff.bundle),
                            !.pc = "resolved"]
    /\ UNCHANGED <<policyVars, addrVars, vecVars>>

NextDiff ==
    \/ Diff_Apply \/ Diff_Listed \/ Binding_Call \/ Bundle_Resolve
    \/ State_Find \/ Inputs_Validate

(***************************************************************************)
(* Vector/deploy_vector_robust.py.  Names are sequences of characters and  *)
(* fixed word parts.  The store counts, for each index and endpoint name,  *)
(* the resources with that display name, and for each endpoint name and    *)
(* deployed index id the deployed indexes with that id on the first        *)
(* endpoint of the name.  It takes every create and deploy it is sent.     *)
(***************************************************************************)
\* --display_name: two names that differ in "-" and "_" only.
DisplayNames == {<<"a", "-", "b">>, <<"a", "_", "b">>}

\* s.replace("-", "_")
RECURSIVE Replace(_)
Replace(s) ==
    IF s = <<>> THEN <<>>
    ELSE <<IF Head(s) = "-" THEN "_" ELSE Head(s)>> \o Replace(Tail(s))

\* index_name = f"{args.display_name}-index"
IndexName(display_name) == display_name \o <<"-", "index">>
\* endpoint_name = f"{args.display_name}-endpoint"
EndpointName(display_name) == display_name \o <<"-", "endpoint">>
\* deployed_id = f"{args.display_name}_deployed".replace("-", "_")
DeployedId(display_name) == Replace(display_name \o <<"_", "deployed">>)

IndexNames == {IndexName(d) : d \in DisplayNames}
EndpointNames == {EndpointName(d) : d \in DisplayNames}
DeployedIds == {DeployedId(d) : d \in DisplayNames}

VecStoreOff ==
    [indexes |-> [n \in IndexNames |-> 0], endpoints |-> [n \in EndpointNames |-> 0],
     deployed |-> [n \in EndpointNames |-> [d \in DeployedIds |-> 0]]]

\* The project before the first run: of each name no resource or one, left
\* by earlier runs; a deployed index needs its endpoint.
InitVecStores ==
    {st \in [indexes : [IndexNames -> {0, 1}], endpoints : [EndpointNames -> {0, 1}],
             deployed : [EndpointNames -> [DeployedIds -> {0, 1}]]] :
        \A n \in EndpointNames, d \in DeployedIds :
            st.deployed[n][d] <= st.endpoints[n]}

\* runs counts the runs started; after_ok tells that a run with the same
\* display name has ended successfully before this one; index_creates,
\* endpoint_creates and deploys count the calls of this run, calls those of
\* all runs; ok holds the display names of the successful runs.
VrunOff ==
    [pc |-> "off", display_name |-> <<>>, runs |-> 0, after_ok |-> FALSE,
     index_creates |-> 0, endpoint_creates |-> 0, deploys |-> 0, calls |-> 0,
     ok |-> {}]

\* main up to the first list call; a run starts when the one before it has
\* ended.
VEC_Start ==
    /\ vrun.pc \in {"idle", "Done", "Failed"}
    /\ vrun.runs < MaxRuns
    /\ \E d \in DisplayNames :
          vrun' = [vrun EXCEPT !.pc = "index", !.display_name = d,
                               !.runs = @ + 1, !.after_ok = (d \in vrun.ok),
                               !.index_creates = 0, !.endpoint_creates = 0,
                               !.deploys = 0]
    /\ UNCHANGED <<policyVars, addrVars, diff, vecStore>>

\* main, "1. CREATE INDEX", with the index created whatever the list call
\* returned.
VEC_IndexAlwaysCreate ==
    /\ vrun.pc = "index"
    /\ LET index_name == IndexName(vrun.display_name)
       IN  /\ vecStore' = [vecStore EXCEPT !.indexes[index_name] = @ + 1]
           /\ vrun' = [vrun EXCEPT !.index_creates = @ + 1, !.calls = @ + 1,
                                   !.pc = "endpoint"]
    /\ UNCHANGED <<policyVars, addrVars, diff>>

\* main, "1. CREATE INDEX": MatchingEngineIndex.list by display name, and a
\* create call when the list is empty.  Any call can raise, which ends the
\* run; a create that raised may have made the index all the same.
VEC_Index ==
    /\ vrun.pc = "index"
    /\ LET index_name == IndexName(vrun.display_name)
       IN  \/ /\ vrun' = [vrun EXCEPT !.pc = "Failed"]
              /\ UNCHANGED vecStore
           \/ /\ vecStore.indexes[index_name] > 0
              /\ vrun' = [vrun EXCEPT !.pc = "endpoint"]
              /\ UNCHANGED vecStore
           \/ /\ vecStore.indexes[index_name] = 0
              /\ \/ /\ vecStore' = [vecStore EXCEPT !.indexes[index_name] = @ + 1]
                    /\ \E raised \in BOOLEAN :
                          vrun' = [vrun EXCEPT !.index_creates = @ + 1,
                                               !.calls = @ + 1,
                                               !.pc = IF raised THEN "Failed"
                                                      ELSE "endpoint"]
                 \/ /\ UNCHANGED vecStore
                    /\ vrun' = [vrun EXCEPT !.index_creates = @ + 1,
                                            !.calls = @ + 1, !.pc = "Failed"]
    /\ UNCHANGED <<policyVars, addrVars, diff>>

\* main, "2. CREATE ENDPOINT": MatchingEngineIndexEndpoint.list by display
\* name, and a create call when the list is empty.
VEC_Endpoint ==
    /\ vrun.pc = "endpoint"
    /\ LET endpoint_name == EndpointName(vrun.display_name)
       IN  \/ /\ vrun' = [vrun EXCEPT !.pc = "Failed"]
              /\ UNCHANGED vecStore
           \/ /\ vecStore.endpoints[endpoint_name] > 0
              /\ vrun' = [vrun EXCEPT !.pc = "deploy"]
              /\ UNCHANGED vecStore
           \/ /\ vecStore.endpoints[endpoint_name] = 0
              /\ \/ /\ vecStore' = [vecStore EXCEPT !.endpoints[endpoint_name] = @ + 1]
                    /\ \E raised \in BOOLEAN :
                          vrun' = [vrun EXCEPT !.endpoint_creates = @ + 1,
                                               !.calls = @ + 1,
                                               !.pc = IF raised THEN "Failed"
                                                      ELSE "deploy"]
                 \/ /\ UNCHANGED vecStore
                    /\ vrun' = [vrun EXCEPT !.endpoint_creates = @ + 1,
                                            !.calls = @ + 1, !.pc = "Failed"]
    /\ UNCHANGED <<policyVars, addrVars, diff>>

\* main, "3. DEPLOY INDEX TO ENDPOINT" and the final output: is_deployed
\* from the deployed indexes of the endpoint, and a deploy_index call when
\* none has the derived id.
VEC_Deploy ==
    /\ vrun.pc = "deploy"
    /\ LET endpoint_name == EndpointName(vrun.display_name)
           deployed_id == DeployedId(vrun.display_name)
           is_deployed == vecStore.deployed[endpoint_name][deployed_id] > 0
           done == [vrun EXCEPT !.pc = "Done", !.ok = @ \cup {vrun.display_name}]
       IN  \/ /\ is_deployed
              /\ vrun' = done
              /\ UNCHANGED vecStore
           \/ /\ ~is_deployed
              /\ \/ /\ vecStore' =
                          [vecStore EXCEPT !.deployed[endpoint_name][deployed_id] = @ + 1]
                    /\ \/ vrun' = [done EXCEPT !.deploys = @ + 1, !.calls = @ + 1]
                       \/ vrun' = [vrun EXCEPT !.deploys = @ + 1, !.calls = @ + 1,
                                               !.pc = "Failed"]
                 \/ /\ UNCHANGED vecStore
                    /\ vrun' = [vrun EXCEPT !.deploys = @ + 1, !.calls = @ + 1,
                                            !.pc = "Failed"]
    /\ UNCHANGED <<policyVars, addrVars, diff>>

NextVec == VEC_Start \/ VEC_Index \/ VEC_Endpoint \/ VEC_Deploy

(***************************************************************************)
(* The specification.                                                      *)
(***************************************************************************)
InitPolicy ==
    /\ policyStore \in InitPolicyDocs
    /\ pinv = [PinvOff EXCEPT !.pc = "start"]
    /\ addrStore = <<>>
    /\ ainv = [p \in Procs |-> AinvOff]
    /\ diff = DiffOff
    /\ vecStore = VecStoreOff /\ vrun = VrunOff

InitAddr ==
    /\ policyStore = NoDoc
    /\ pinv = PinvOff
    /\ addrStore \in InitAddrStores
    /\ ainv = [p \in Procs |-> [AinvOff EXCEPT !.pc = "start"]]
    /\ diff = DiffOff
    /\ vecStore = VecStoreOff /\ vrun = VrunOff

InitDiff ==
    /\ policyStore = NoDoc
    /\ pinv = PinvOff
    /\ addrStore = <<>>
    /\ ainv = [p \in Procs |-> AinvOff]
    /\ \/ \E d \in DiffDocs : diff = [DiffOff EXCEPT !.pc = "start", !.doc = d]
       \/ \E d \in CallDocs : diff = [DiffOff EXCEPT !.pc = "call", !.doc = d]
       \/ \E d \in ListedDocs : diff = [DiffOff EXCEPT !.pc = "listed", !.doc = d]
       \/ \E b \in BundleNames : diff = [DiffOff EXCEPT !.pc = "bundle", !.bundle = b]
       \/ \E o \in TerraformOutputs : diff = [DiffOff EXCEPT !.pc = "state", !.out = o]
       \/ \E i \in NetworkViewArgs \X SupernetArgs \X SubnetNameArgs \X BlockSizeArgs :
             diff = [DiffOff EXCEPT !.pc = "inputs", !.inputs = i]
    /\ vecStore = VecStoreOff /\ vrun = VrunOff

InitVec ==
    /\ policyStore = NoDoc
    /\ pinv = PinvOff
    /\ addrStore = <<>>
    /\ ainv = [p \in Procs |-> AinvOff]
    /\ diff = DiffOff
    /\ vecStore \in InitVecStores
    /\ vrun = [VrunOff EXCEPT !.pc = "idle"]

Init == InitPolicy \/ InitAddr \/ InitDiff \/ InitVec

Next == NextPolicy \/ NextAddr \/ NextDiff \/ NextVec

Spec == Init /\ [][Next]_vars

(***************************************************************************)
(* The claims.                                                             *)
(***************************************************************************)
\* The step is the invocation's write call to the policy store.
PolicyWriteStep == pinv'.writes = pinv.writes + 1

\* The step is an allocation request of invocation p.
AllocStep(p) == ainv'[p].allocs = ainv[p].allocs + 1

\* The step is a create request, for a named block, of invocation p.
CreateStep(p) == ainv'[p].creates = ainv[p].creates + 1

\* C1: in the policy workflows, a write issued after another writer changed
\* the policy, so that the token read at fetch is not the store's token at
\* write time, fails (with Conflict, unless the call never reached the
\* store) and leaves the remote document as the other writer left it.
C1_ConflictSafety ==
    [][(PolicyWriteStep /\ pinv.fetched.etag # policyStore.etag)
          => /\ policyStore' = policyStore
             /\ pinv'.pc = "Failed"
             /\ pinv'.err \in {"Conflict", "StoreUnavailable"}]_vars

\* C2: an invocation in dry-run mode issues no write, create or delete call
\* (in.py: no request at all), and no step of it changes the remote state:
\* the policy document changes only by another writer or by an apply-mode
\* write, the address store only by a step of an invocation not in dry-run.
C2_DryRunInv ==
    /\ pinv.mode = "dry-run" => (pinv.writes = 0 /\ pinv.written = NoDoc)
    /\ \A p \in Procs :
          ainv[p].dry =>
             /\ ainv[p].creates = 0 /\ ainv[p].deletes = 0 /\ ainv[p].created = 0
             /\ ainv[p].wf = "in" => ainv[p].allocs = 0

C2_DryRunStep ==
    /\ policyStore' # policyStore => (pinv' = pinv \/ pinv.mode # "dry-run")
    /\ addrStore' # addrStore =>
          \E p \in Procs : ainv'[p] # ainv[p] /\ ~ainv[p].dry

C2_DryRunPurity == []C2_DryRunInv /\ [][C2_DryRunStep]_vars

\* C2's case: a dry-run of assign_iam_roles has ended with a proposed
\* document that differs from the fetched one.
C2_Witness ==
    /\ pinv.wf = "air" /\ pinv.mode = "dry-run" /\ pinv.pc = "Done"
    /\ pinv.reported # NoDoc /\ pinv.reported # pinv.fetched

\* C3: a delete whose lookup finds two or more blocks of the triple fails
\* with Ambiguous and issues no delete call.
C3_AmbiguityGuard ==
    \A p \in Procs :
        (ainv[p].op = "delete" /\ ainv[p].found >= 2) =>
            /\ ainv[p].deletes = 0
            /\ ainv[p].pc = "Failed"
            /\ ainv[p].err = "Ambiguous"

\* C4: in both policy workflows an invocation whose fetched policy carries
\* no token fails with MissingToken and issues no write.
C4_MissingToken ==
    (pinv.fetched # NoDoc /\ pinv.fetched.etag = NoTag) =>
        /\ pinv.pc = "Failed"
        /\ pinv.err = "MissingToken"
        /\ pinv.writes = 0

\* C5: applying the desired roles to the result of a first application gives
\* the result of the first application, for every document, principal and
\* role set.
C5_Idempotent == diff.pc = "done" => diff.twice = diff.once

\* C5's case: the second application ran after a first one that changed the
\* document.
C5_Witness == diff.pc = "done" /\ diff.once # diff.doc /\ diff.roles = Roles

\* The bindings of the fetched document that the request does not concern
\* are, unaltered, in doc.
Untouched(doc) ==
    \A i \in DOMAIN pinv.fetched.bindings :
        (/\ pinv.fetched.bindings[i].role \notin pinv.roles
         /\ pinv.member \notin Range(pinv.fetched.bindings[i].members))
        => /\ i \in DOMAIN doc.bindings
           /\ doc.bindings[i] = pinv.fetched.bindings[i]

\* C6: every binding whose role is not targeted and whose members do not
\* contain the principal is unaltered (role, members, condition) in the
\* document assign_iam_roles proposes in dry-run and writes in apply mode.
C6_NoCrossTalk ==
    pinv.wf = "air" =>
        /\ pinv.reported # NoDoc => Untouched(pinv.reported)
        /\ pinv.written # NoDoc => Untouched(pinv.written)

\* C7: in the policy workflows an invocation whose computed document equals
\* the fetched one issues no write and does not fail (other than a dry-run
\* failing to print).
C7_NoOpNotPersisted ==
    (pinv.fetched # NoDoc /\ pinv.modified = pinv.fetched) =>
        /\ pinv.writes = 0
        /\ pinv.pc = "Failed" => pinv.err = "DisplayError"

\* C8: a delete whose lookup finds no block of the triple issues no delete
\* call and ends in the successful terminal state.
C8_NothingToDelete ==
    \A p \in Procs :
        (ainv[p].op = "delete" /\ ainv[p].found = 0) =>
            /\ ainv[p].deletes = 0
            /\ ainv[p].pc = "Done"

\* C9: when the store has no free block for an allocation request, the
\* invocation ends in Failed (NoCapacity, unless the request never reached
\* the store) with the store unchanged; an invocation that met NoCapacity
\* has issued that one allocation request, no create request, and has
\* created nothing.
C9_NoCapacityInv ==
    \A p \in Procs :
        ainv[p].err = "NoCapacity" =>
            /\ ainv[p].pc = "Failed"
            /\ ainv[p].allocs = 1
            /\ ainv[p].creates = 0
            /\ ainv[p].created = 0

C9_NoCapacityStep ==
    \A p \in Procs :
        (AllocStep(p) /\ FreeNets(ainv[p].view) = {}) =>
            /\ addrStore' = addrStore
            /\ ainv'[p].pc = "Failed"
            /\ ainv'[p].err \in {"NoCapacity", "StoreUnavailable"}

C9_NoCapacity == []C9_NoCapacityInv /\ [][C9_NoCapacityStep]_vars

\* C9's case: a reserve of infob-auomation-v2 was refused for lack of a
\* free block.
C9_Witness ==
    \E p \in Procs :
        /\ ainv[p].wf = "v2" /\ ainv[p].err = "NoCapacity"
        /\ FreeNets(ainv[p].view) = {}

\* C10: where allocation and creation are separate calls, a create of a
\* block that is taken by then is rejected with the store unchanged and the
\* invocation ends in Failed (AlreadyExists, unless the request never
\* reached the store) after that single create and at most one allocation;
\* and no step adds a reservation for a block of a view that already has
\* a live one (a new object is for a block not taken before the step, and
\* the objects there before stay as they are or are deleted).
C10_RaceInv ==
    \A p \in Procs :
        ainv[p].err = "AlreadyExists" =>
            /\ ainv[p].pc = "Failed"
            /\ ainv[p].creates = 1
            /\ ainv[p].allocs <= 1
            /\ ainv[p].created = 0

C10_RaceStep ==
    /\ \A p \in Procs :
          (CreateStep(p) /\ Taken(ainv[p].view, ainv[p].avail)) =>
              /\ addrStore' = addrStore
              /\ ainv'[p].pc = "Failed"
              /\ ainv'[p].err \in {"AlreadyExists", "StoreUnavailable"}
    /\ Len(addrStore') > Len(addrStore) =>
          ~Taken(addrStore'[Len(addrStore')].view, addrStore'[Len(addrStore')].net)
    /\ \A i \in DOMAIN addrStore :
          addrStore'[i].live => (addrStore[i].live /\ addrStore'[i] = addrStore[i])

C10_AllocateCreateRace == []C10_RaceInv /\ [][C10_RaceStep]_vars

\* C10's case: two reserves of infob-auomation-v2 were offered the same
\* free block of one view; one created it, the other was refused.
C10_Witness ==
    \E p, q \in Procs :
        /\ p # q
        /\ ainv[p].wf = "v2" /\ ainv[q].wf = "v2"
        /\ ainv[p].view = ainv[q].view
        /\ ainv[p].avail = ainv[q].avail
        /\ ainv[q].created = ainv[q].avail /\ ainv[q].pc = "Done"
        /\ ainv[p].err = "AlreadyExists"

\* The step is a delete request of invocation p.
DeleteStep(p) == ainv'[p].deletes = ainv[p].deletes + 1

\* The step is a call of invocation p that asks the address store to change:
\* a create of a named block, a delete, or the allocate-and-create request.
MutatingStep(p) ==
    CreateStep(p) \/ DeleteStep(p) \/ (AllocStep(p) /\ ainv[p].pc = "post")

\* The errors by which a store call is known to have been rejected.
Rejections ==
    {"Conflict", "StoreUnavailable", "AlreadyExists", "NotFound", "NoCapacity"}

\* C11: every write, create or delete call ends the invocation; when the
\* store rejects the call the invocation ends in Failed and the remote state
\* is the state before the call (a call that leaves the store as it was is a
\* rejected one); an accepted policy write puts the whole written document
\* in the store, an accepted create or delete changes one object.
C11_FailedApplyStep ==
    /\ PolicyWriteStep =>
          /\ pinv'.pc \in PTerminal
          /\ policyStore' = policyStore =>
                (pinv'.pc = "Failed" /\ pinv'.err \in Rejections)
          /\ pinv'.err \in Rejections => policyStore' = policyStore
          /\ policyStore' # policyStore =>
                /\ policyStore'.bindings = pinv.policy.bindings
                /\ policyStore'.version = pinv.policy.version
    /\ \A p \in Procs :
          MutatingStep(p) =>
             /\ ainv'[p].pc \in ATerminal
             /\ addrStore' = addrStore =>
                   (ainv'[p].pc = "Failed" /\ ainv'[p].err \in Rejections)
             /\ ainv'[p].err \in Rejections => addrStore' = addrStore
             /\ addrStore' # addrStore =>
                   Cardinality({i \in DOMAIN addrStore' :
                                   \/ i \notin DOMAIN addrStore
                                   \/ addrStore'[i] # addrStore[i]}) = 1

C11_FailedApply == [][C11_FailedApplyStep]_vars

\* C11's case: the store rejected the write of a document that differs from
\* the store's, and the store has a binding the rejected document lacks.
C11_Witness ==
    /\ pinv.pc = "Failed" /\ pinv.err = "Conflict" /\ pinv.writes = 1
    /\ policyStore.bindings # pinv.written.bindings
    /\ policyStore # pinv.fetched

\* C12: an invocation issues each mutating store call (policy write, network
\* create, network delete) and each allocation request at most once; a policy
\* write comes after the fetch of the same invocation, a delete after its
\* lookup found the block, a create of a named block after its allocation
\* request.
C12_AtMostOneApply ==
    /\ pinv.writes <= 1
    /\ pinv.writes = 1 => pinv.fetched # NoDoc
    /\ \A p \in Procs :
          /\ ainv[p].allocs <= 1 /\ ainv[p].creates <= 1 /\ ainv[p].deletes <= 1
          /\ ainv[p].deletes = 1 => ainv[p].found >= 1
          /\ ainv[p].creates = 1 => ainv[p].allocs = 1

\* The part of C12 on the number of calls: no call is issued twice and an
\* invocation that has ended issues nothing more.
C12_CallsOnce ==
    /\ pinv.writes <= 1
    /\ pinv.writes = 1 => pinv.fetched # NoDoc
    /\ \A p \in Procs :
          /\ ainv[p].allocs <= 1 /\ ainv[p].creates <= 1 /\ ainv[p].deletes <= 1
          /\ ainv[p].deletes = 1 => ainv[p].found >= 1

\* C13: when an invocation of deploy_project_owner_remove has ended, the
\* payload file updated_policy.json does not exist.
C13_ScratchFileCleanup ==
    (pinv.wf = "opr" /\ pinv.pc \in PTerminal) => ~pinv.tempFile

\* The part of C13 on the paths through the try block: after the
\* set-iam-policy command, accepted or failed, the file is gone.
C13_RemovedAfterSet ==
    (pinv.wf = "opr" /\ pinv.writes = 1) => ~pinv.tempFile

\* The five names of the static table and the number of roles of each.
TableSizes ==
    [GenAIUser |-> 7, GenAIViewer |-> 5, GenAIFeatureStoreUser |-> 1,
     GenAIFeatureStoreViewer |-> 2, GenAppBuilderUser |-> 1]

\* C14: get_bundled_roles returns, for each of the five names of the table,
\* its list (non-empty, of the table's length, of distinct role strings) and
\* the empty list for every other name; an invocation of assign_iam_roles
\* whose --bundled-roles is not a name of the table has failed with
\* UnknownBundle without a fetch, a report or a write.
C14_UnknownBundle ==
    /\ diff.pc = "resolved" =>
          IF diff.bundle \in DOMAIN TableSizes
          THEN /\ Len(diff.resolved_roles) = TableSizes[diff.bundle]
               /\ Range(diff.resolved_roles) \subseteq Range(RoleNames)
               /\ Cardinality(Range(diff.resolved_roles)) = Len(diff.resolved_roles)
          ELSE diff.resolved_roles = <<>>
    /\ (pinv.wf = "air" /\ pinv.bundle \notin DOMAIN TableSizes \cup {""}) =>
          /\ pinv.pc = "Failed" /\ pinv.err = "UnknownBundle"
          /\ pinv.fetched = NoDoc /\ pinv.reported = NoDoc
          /\ pinv.writes = 0 /\ pinv.written = NoDoc

\* C14's case: an invocation with valid individual roles and a bundle name
\* that is a prefix of a key of the table has ended.
C14_Witness ==
    /\ pinv.wf = "air" /\ pinv.bundle = "GenAppBuilder" /\ pinv.roles = Roles
    /\ pinv.pc \in PTerminal

\* C15: in both policy workflows the document prepared for the write, and the
\* document passed to the store's write, carry the token of the document the
\* same invocation fetched.
C15_TokenCarried ==
    /\ pinv.policy # NoDoc => pinv.policy.etag = pinv.fetched.etag
    /\ pinv.written # NoDoc => pinv.written.etag = pinv.fetched.etag

\* C15's case: a write was issued with the fetched token after another
\* writer had changed the store's token.
C15_Witness ==
    /\ pinv.writes = 1 /\ pinv.written.etag # NoTag
    /\ pinv.written.etag = pinv.fetched.etag
    /\ policyStore.etag # pinv.fetched.etag
    /\ pinv.err = "Conflict"

\* At most one binding per role and no member twice in a binding.
BindingInvariant(doc) ==
    /\ \A i, j \in DOMAIN doc.bindings :
          doc.bindings[i].role = doc.bindings[j].role => i = j
    /\ \A i \in DOMAIN doc.bindings :
          \A j, k \in DOMAIN doc.bindings[i].members :
              doc.bindings[i].members[j] = doc.bindings[i].members[k] => j = k

\* C16: for every document with at most one binding per role and unique
\* members in each binding, every principal and every role set, the document
\* after applying the desired roles has at most one binding per role and
\* unique members in every binding.
C16_BindingInvariant ==
    (diff.pc = "done" /\ BindingInvariant(diff.doc)) => BindingInvariant(diff.once)

\* C16's case: the roles were applied to a document that has a binding of
\* each role, one with the principal and one without.
C16_Witness ==
    /\ diff.pc = "done" /\ BindingInvariant(diff.doc)
    /\ Len(diff.doc.bindings) = 2 /\ diff.roles = Roles
    /\ diff.member \in Range(diff.doc.bindings[1].members)
    /\ diff.member \notin Range(diff.doc.bindings[2].members)

\* C17: in the policy workflows an invocation whose fetch failed has ended in
\* Failed, with no document fetched, no diff computed, no dry-run report and
\* no write.
C17_FetchFailureStops ==
    pinv.err = "FetchError" =>
        /\ pinv.pc = "Failed"
        /\ pinv.fetched = NoDoc /\ pinv.modified = NoDoc /\ pinv.policy = NoDoc
        /\ pinv.reported = NoDoc
        /\ pinv.writes = 0 /\ pinv.written = NoDoc /\ ~pinv.tempFile

\* C17's case: the fetch of an apply-mode invocation of assign_iam_roles
\* failed.
C17_Witness ==
    /\ pinv.wf = "air" /\ pinv.mode = "apply" /\ pinv.err = "FetchError"
    /\ pinv.pc \in PTerminal

\* C18: an invocation reports (DryRunReport) or applies (GuardedApply) only
\* after it has fetched the current state and computed the delta itself, and
\* never does both: a policy report or write follows the fetch and the diff,
\* a create follows an allocation request of the same invocation, a delete
\* follows its lookup.
C18_StateMachine ==
    /\ (pinv.reported # NoDoc \/ pinv.writes >= 1) =>
          (pinv.fetched # NoDoc /\ pinv.modified # NoDoc)
    /\ ~(pinv.reported # NoDoc /\ pinv.writes >= 1)
    /\ \A p \in Procs :
          /\ (ainv[p].creates >= 1 \/ ainv[p].created # 0) => ainv[p].allocs >= 1
          /\ ainv[p].deletes >= 1 => ainv[p].found >= 1
          /\ ainv[p].dry => (ainv[p].creates = 0 /\ ainv[p].deletes = 0)

\* The part of C18 on termination: with steps taken as long as one is
\* possible, every invocation ends in Done or Failed.
FairSpec == Spec /\ WF_vars(Next)

C18_Terminates ==
    <>[](/\ pinv.pc \in PTerminal \cup {"off"}
         /\ \A p \in Procs : ainv[p].pc \in ATerminal \cup {"off"})

\* The members list is in ascending order without duplicates.
StrictlySorted(ms) == \A j, k \in DOMAIN ms : j < k => ms[j] < ms[k]

\* C19: for every targeted role that has a binding in the document, the
\* first binding of the role has, after the application, its old members
\* list when the principal was in it, and otherwise exactly the old members
\* and the principal, without duplicates and in sorted order.
C19_UpdateExisting ==
    diff.pc = "done" =>
        \A i \in DOMAIN diff.doc.bindings :
            (/\ diff.doc.bindings[i].role \in diff.roles
             /\ \A j \in 1..(i - 1) :
                   diff.doc.bindings[j].role # diff.doc.bindings[i].role)
            => LET old == diff.doc.bindings[i].members
                   new == diff.once.bindings[i].members
               IN  /\ diff.once.bindings[i].role = diff.doc.bindings[i].role
                   /\ IF diff.member \in Range(old)
                      THEN new = old
                      ELSE /\ Range(new) = Range(old) \cup {diff.member}
                           /\ StrictlySorted(new)

\* C19's case: the principal was added to a binding whose members were
\* <<2, 2>>, and the binding's members are now <<1, 2>>.
C19_Witness ==
    /\ diff.pc = "done" /\ diff.member = 1
    /\ Len(diff.doc.bindings) >= 1
    /\ diff.doc.bindings[1].role \in diff.roles
    /\ diff.doc.bindings[1].members = <<2, 2>>
    /\ diff.once.bindings[1].members = <<1, 2>>

\* Every binding of doc whose role is in roles has no condition.
NoConditionOn(doc, roles) ==
    \A i \in DOMAIN doc.bindings :
        doc.bindings[i].role \in roles => doc.bindings[i].cond = 0

\* C20: after applying the desired roles, every binding whose role is
\* targeted carries no condition: in the dict add_or_update_binding returns,
\* and so in the document a dry-run proposes.
C20_ConditionStripping ==
    /\ diff.pc = "done" => NoConditionOn(diff.once, diff.roles)
    /\ (pinv.wf = "air" /\ pinv.modified # NoDoc) =>
          NoConditionOn(pinv.modified, pinv.roles)

\* The part of C20 on documents with one binding per role: there every
\* targeted binding has lost its condition.
C20_StrippedWhenOnePerRole ==
    (/\ diff.pc = "done"
     /\ \A i, j \in DOMAIN diff.doc.bindings :
           diff.doc.bindings[i].role = diff.doc.bindings[j].role => i = j)
    => NoConditionOn(diff.once, diff.roles)

\* C21: a call of add_or_update_binding on a document that has no binding of
\* the role, its bindings key absent or None included, returns the document
\* with the bindings it had, in their order, followed by one new binding of
\* the role with the principal as only member and no condition.
C21_CreateMissing ==
    (/\ diff.pc = "returned"
     /\ \/ NoList(diff.doc)
        \/ \A i \in DOMAIN diff.doc.bindings : diff.doc.bindings[i].role \notin diff.roles)
    => /\ diff.once # TypeError
       /\ \E r \in diff.roles :
             diff.once.bindings =
                 Append(Listed(diff.doc).bindings,
                        [role |-> r, members |-> <<diff.member>>, cond |-> 0])

\* What holds of C21: the same for the documents whose bindings key is a list
\* or is absent.
C21_CreateWhenIterable ==
    (/\ diff.pc = "returned" /\ Iterable(diff.doc)
     /\ \A i \in DOMAIN Listed(diff.doc).bindings :
           Listed(diff.doc).bindings[i].role \notin diff.roles)
    => /\ diff.once # TypeError
       /\ diff.once.version = diff.doc.version /\ diff.once.etag = diff.doc.etag
       /\ \E r \in diff.roles :
             diff.once.bindings =
                 Append(Listed(diff.doc).bindings,
                        [role |-> r, members |-> <<diff.member>>, cond |-> 0])

\* C22: two runs on the same fetched document for the same principal whose
\* --roles and bundle give the same role set, in whatever order and however
\* often the roles are listed, produce equal documents, and the bindings
\* they add follow the fetched ones in the string order of their roles.
C22_Reproducible ==
    diff.pc = "ran" =>
        /\ diff.twice = diff.once
        /\ \A i, j \in DOMAIN diff.once.bindings :
              (Len(diff.doc.bindings) < i /\ i < j)
              => diff.once.bindings[i].role < diff.once.bindings[j].role

\* C22's case: the roles were listed out of order (roles/owner before
\* roles/discoveryengine.editor, or by the bundle), the other run had other
\* arguments for the same set, and at least two bindings were added.
C22_Witness ==
    /\ diff.pc = "ran" /\ diff.differ
    /\ diff.listed = <<15, 10>> \/ diff.bundle = "GenAIViewer"
    /\ Len(diff.once.bindings) >= Len(diff.doc.bindings) + 2

\* C23: a delete (not a dry-run) whose lookup returned exactly one block
\* changes the store in its delete call only, and there only the block it
\* looked up, which has the view, network and label of the request; when the
\* invocation is done that block is gone, and no step of the invocation has
\* touched any other block.
C23_DeleteInv ==
    \A p \in Procs :
        (ainv[p].op = "delete" /\ ~ainv[p].dry /\ ainv[p].found = 1) =>
            /\ addrStore[ainv[p].ref].view = ainv[p].view
            /\ addrStore[ainv[p].ref].net = ainv[p].net
            /\ addrStore[ainv[p].ref].label = ainv[p].label
            /\ ainv[p].pc = "Done" =>
                  (ainv[p].deletes = 1 /\ ~addrStore[ainv[p].ref].live)

C23_DeleteStep ==
    \A p \in Procs :
        (ainv'[p] # ainv[p] /\ ainv'[p].op = "delete" /\ ainv'[p].found <= 1) =>
            /\ Len(addrStore') = Len(addrStore)
            /\ \A i \in DOMAIN addrStore :
                  addrStore'[i] # addrStore[i] =>
                     /\ DeleteStep(p) /\ ainv[p].found = 1 /\ i = ainv[p].ref
                     /\ addrStore'[i] = [addrStore[i] EXCEPT !.live = FALSE]

C23_ExactMatchDelete == []C23_DeleteInv /\ [][C23_DeleteStep]_vars

\* C23's case: a delete that found exactly one block is done, and a block of
\* the same view and network with another label is still there.
C23_Witness ==
    \E p \in Procs :
        /\ ainv[p].op = "delete" /\ ainv[p].found = 1 /\ ainv[p].pc = "Done"
        /\ ainv[p].deletes = 1
        /\ \E i \in DOMAIN addrStore :
              /\ addrStore[i].live
              /\ addrStore[i].view = ainv[p].view /\ addrStore[i].net = ainv[p].net
              /\ addrStore[i].label # ainv[p].label

\* The members of ms but m, in their order.
WithoutMember(ms, m) == SelectSeq(ms, LAMBDA x : x # m)

\* Document w is document f without member m in roles/owner: no roles/owner
\* binding of w lists m or is empty, the bindings of the other roles are those
\* of f, and the roles/owner bindings of w are those of f with m taken out
\* (a binding that held m alone is dropped).
OwnerRemovalResult(f, w, m) ==
    /\ \A i \in DOMAIN w.bindings :
          w.bindings[i].role = RoleOwner =>
             (m \notin Range(w.bindings[i].members) /\ w.bindings[i].members # <<>>)
    /\ SelectSeq(w.bindings, LAMBDA b : b.role # RoleOwner)
          = SelectSeq(f.bindings, LAMBDA b : b.role # RoleOwner)
    /\ SelectSeq(w.bindings, LAMBDA b : b.role = RoleOwner)
          = SelectSeq([i \in DOMAIN f.bindings |->
                          [f.bindings[i] EXCEPT !.members = WithoutMember(@, m)]],
                      LAMBDA b : b.role = RoleOwner /\ b.members # <<>>)
    /\ w.version = f.version /\ w.etag = f.etag

\* C24: the document deploy_project_owner_remove writes is the fetched policy
\* without the service account in roles/owner: no roles/owner binding lists
\* it, none is empty, and every other binding and member is as fetched.
C24_OwnerRemovalResult ==
    (pinv.wf = "opr" /\ pinv.written # NoDoc)
    => OwnerRemovalResult(pinv.fetched, pinv.written, pinv.member)

\* What holds of C24: the same for the fetched policies with at most one
\* roles/owner binding.
C24_WhenOneOwnerBinding ==
    (/\ pinv.wf = "opr" /\ pinv.written # NoDoc
     /\ \A i, j \in DOMAIN pinv.fetched.bindings :
           (/\ pinv.fetched.bindings[i].role = RoleOwner
            /\ pinv.fetched.bindings[j].role = RoleOwner) => i = j)
    => OwnerRemovalResult(pinv.fetched, pinv.written, pinv.member)

\* Documents a and b have the same bindings but for the conditions (roles and
\* members, position by position), the same version and the same token.
SameButConditions(a, b) ==
    /\ Len(a.bindings) = Len(b.bindings)
    /\ \A i \in DOMAIN a.bindings :
          /\ a.bindings[i].role = b.bindings[i].role
          /\ a.bindings[i].members = b.bindings[i].members
    /\ a.version = b.version /\ a.etag = b.etag

\* C25: for a fetched policy, principal and role set, the document that
\* assign_iam_roles prints in dry-run mode (the modified dict) and the
\* document it passes to set_iam_policy in apply mode (the Policy object
\* built from that dict) are the same: bindings with their conditions,
\* version and token.
C25_DryRunShowsApply ==
    pinv.wf = "air" =>
        /\ pinv.reported # NoDoc => pinv.reported = pinv.policy
        /\ pinv.written # NoDoc => pinv.written = pinv.modified

\* What holds of C25: the two documents agree in everything but the
\* conditions.
C25_SameButConditions ==
    pinv.wf = "air" =>
        /\ pinv.reported # NoDoc => SameButConditions(pinv.reported, pinv.policy)
        /\ pinv.written # NoDoc => SameButConditions(pinv.written, pinv.modified)

\* C26: in deploy_vector_robust a run that follows a successful run with the
\* same display name issues no index create, no endpoint create and no
\* deploy_index call; after any number of runs, one after the other, there is
\* at most one index and one endpoint of each name and at most one deployed
\* index with the derived id on the endpoint.
C26_CreateIfAbsent ==
    /\ vrun.after_ok =>
          (vrun.index_creates = 0 /\ vrun.endpoint_creates = 0 /\ vrun.deploys = 0)
    /\ \A n \in IndexNames : vecStore.indexes[n] <= 1
    /\ \A n \in EndpointNames : vecStore.endpoints[n] <= 1
    /\ \A n \in EndpointNames, d \in DeployedIds : vecStore.deployed[n][d] <= 1

\* C26's case: a run has ended successfully after a successful run of the same
\* display name, and the runs before it sent the three calls.
C26_Witness ==
    /\ vrun.after_ok /\ vrun.pc = "Done" /\ vrun.calls = 3
    /\ vecStore.indexes[IndexName(vrun.display_name)] = 1
    /\ vecStore.deployed[EndpointName(vrun.display_name)][DeployedId(vrun.display_name)] = 1

\* C27: find_project_id_from_state gives the project_id of the first
\* google_project resource of the root module that has a non-empty one; when
\* the state has no such resource or the terraform command fails, the
\* invocation ends in failure and has neither fetched nor written a policy.
C27_ProjectLookupGate ==
    /\ diff.pc = "found" =>
          LET root == diff.out.root
              cands == {i \in DOMAIN root :
                           root[i].type = "google_project" /\ root[i].project_id # ""}
          IN  IF diff.out.rc = 0 /\ diff.out.json /\ cands # {}
              THEN diff.project_id = root[MinOf(cands)].project_id
              ELSE diff.project_id = NoProject
    /\ (pinv.wf = "opr" /\ pinv.project = NoProject) =>
          /\ pinv.pc = "Failed" /\ pinv.err = "NoProject"
          /\ pinv.fetched = NoDoc /\ pinv.written = NoDoc /\ pinv.writes = 0
    /\ (pinv.wf = "opr" /\ pinv.fetched # NoDoc) => pinv.project # NoProject

\* C27's case: an invocation has ended at the lookup of the project, with
\* nothing fetched.
C27_Witness ==
    /\ pinv.wf = "opr" /\ pinv.pc = "Failed" /\ pinv.err = "NoProject"
    /\ pinv.project = NoProject /\ pinv.fetched = NoDoc

\* C28: validate_inputs accepts exactly the inputs with a non-empty network
\* view, supernet and subnet name, a subnet name that is not only
\* whitespace, a supernet that parses as an IP network and a block size from
\* 1 to 32; an invocation of infoblox_reserve_cidr that it rejects, or an
\* apply without --proposed-subnet, fails and has sent no request to the
\* address store.
C28_ValidInv ==
    /\ diff.pc = "validated" =>
          (diff.valid <=>
              /\ diff.inputs[1] # "" /\ diff.inputs[2] # "" /\ diff.inputs[3] # <<>>
              /\ \E k \in DOMAIN diff.inputs[3] : diff.inputs[3][k] \notin Whitespace
              /\ IpNetworkParses(diff.inputs[2])
              /\ diff.inputs[4] \in 1..32)
    /\ \A p \in Procs :
          (ainv[p].wf = "rc" /\ ainv[p].err \in {"InvalidInput", "MissingProposed"}) =>
             /\ ainv[p].pc = "Failed"
             /\ ainv[p].allocs = 0 /\ ainv[p].creates = 0 /\ ainv[p].deletes = 0
             /\ ainv[p].created = 0

C28_ValidStep ==
    \A p \in Procs :
        (/\ ainv'[p] # ainv[p] /\ ainv'[p].wf = "rc"
         /\ ainv'[p].err \in {"InvalidInput", "MissingProposed"})
        => addrStore' = addrStore

C28_InputValidationGate == []C28_ValidInv /\ [][C28_ValidStep]_vars

\* C28's case: an invocation has been rejected by validate_inputs while the
\* other one has reserved a block.
C28_Witness ==
    \E p, q \in Procs :
        /\ ainv[p].wf = "rc" /\ ainv[p].pc = "Failed" /\ ainv[p].err = "InvalidInput"
        /\ ainv[q].pc = "Done" /\ ainv[q].created # 0

====
